---- MODULE Spec2Model ----
\* Model of sherpa-onnx/csrc/offline-recognizer-impl.{h,cc}:
\* OfflineRecognizerImpl::Create (the recognizer factory) and the abstract
\* CreateStream / DecodeStreams interface of the returned recognizer.
EXTENDS Integers, Sequences, FiniteSets, TLC

\* ------------------------------------------------------------------ bounds
MaxStreams == 3
MaxDecodes == 2

\* ------------------------------------------------------- input universes
\* Files the caller may name in the configuration; "" is an unset path.
Files == {"enc.bin", "model.bin"}
Paths == {""} \cup Files

\* Values of the "model_type" metadata attribute an artifact may embed.
KnownTypes == {"conformer", "zipformer", "paraformer"}
OtherTypes == {"", "whisper", "Conformer", "PARAFORMER", " zipformer", "paraformer "}
ModelTypes == KnownTypes \cup OtherTypes

\* An artifact on disk: not loadable as a model, or a model whose custom
\* metadata map has or lacks the "model_type" key.
BadArtifact == [valid |-> FALSE, has_key |-> FALSE, model_type |-> ""]
NoKeyArtifact == [valid |-> TRUE, has_key |-> FALSE, model_type |-> ""]
Artifacts ==
    {BadArtifact, NoKeyArtifact}
        \cup {[valid |-> TRUE, has_key |-> TRUE, model_type |-> t] : t \in ModelTypes}

NoBuf == [valid |-> FALSE, has_key |-> FALSE, model_type |-> "<unread>"]

MkConfig(enc, par) ==
    [model_config |->
        [transducer |-> [encoder_filename |-> enc],
         paraformer |-> [model |-> par]]]

Configs == {MkConfig(e, p) : e \in Paths, p \in Paths}

NoConfig == MkConfig("", "")

NoRecognizer == [kind |-> "none", config |-> NoConfig, sess |-> 0]

NoRun == [model_type |-> "<none>", outcome |-> "none", source |-> "none"]

VARIABLES
    pc,             \* position inside / after Create
    fs,             \* the files on disk: file name -> artifact
    arg_config,     \* the caller's configuration as it was when Create was called
    config,         \* the caller's configuration object (Create's const reference)
    model_filename, \* local of Create
    buf,            \* local of Create: the bytes ReadFile returned
    encoder_sess,   \* local of Create: id of the introspection session, 0 = none
    sessions,       \* ids of the inference sessions currently alive
    sess_built,     \* how many introspection sessions this run has constructed
    model_type,     \* local of Create
    classified,     \* the comparisons of lines 45-49 have run
    files_read,     \* paths handed to ReadFile by Create, in order
    recognizer,     \* the object Create returns
    error,          \* how Create failed, "none" otherwise
    prev,           \* summary of the previous run of Create that classified
    streams,        \* the caller's buffer of streams
    decode_calls,   \* number of DecodeStreams calls on the recognizer
    last_n          \* the count n of the last DecodeStreams call

vars == <<pc, fs, arg_config, config, model_filename, buf, encoder_sess,
          sessions, sess_built, model_type, classified, files_read,
          recognizer, error, prev, streams, decode_calls, last_n>>

createLocals == <<model_filename, buf, encoder_sess, sess_built, model_type,
                  classified, files_read>>

\* ---------------------------------------------------------- pure parts

\* SHERPA_ONNX_READ_META_DATA_STR(model_type, "model_type") at line 43; the
\* macro itself lives in macros.h: the value of the key, "" when absent.
ReadMetaDataStr(artifact) ==
    IF artifact.has_key THEN artifact.model_type ELSE ""

\* Variants of the comparison of lines 45-51 with a slip in it.
FoldCase(mt) ==
    IF mt = "Conformer" THEN "conformer"
    ELSE IF mt = "PARAFORMER" THEN "paraformer"
    ELSE mt

Classify_caseFolded(mt) ==
    IF FoldCase(mt) = "conformer" \/ FoldCase(mt) = "zipformer" THEN "Transducer"
    ELSE IF FoldCase(mt) = "paraformer" THEN "Paraformer"
    ELSE "Unknown"

Classify_zipformerMisfiled(mt) ==
    IF mt = "conformer" THEN "Transducer"
    ELSE IF mt = "paraformer" \/ mt = "zipformer" THEN "Paraformer"
    ELSE "Unknown"

Classify_fallback(mt) ==
    IF mt = "paraformer" THEN "Paraformer"
    ELSE "Transducer"

\* Lines 45-51: the family the model_type string dispatches to.
Classify(mt) ==
    IF mt = "conformer" \/ mt = "zipformer" THEN "Transducer"
    ELSE IF mt = "paraformer" THEN "Paraformer"
    ELSE "Unknown"

\* The concrete implementations' constructors (declared in the two included
\* headers): each keeps the configuration and builds its own session.
OfflineRecognizerTransducerImpl(cfg, sid) ==
    [kind |-> "Transducer", config |-> cfg, sess |-> sid]

OfflineRecognizerParaformerImpl(cfg, sid) ==
    [kind |-> "Paraformer", config |-> cfg, sess |-> sid]

FreshSession == IF sessions = {} THEN 1 ELSE 1 + Cardinality(sessions)

\* ------------------------------------------------------------- Init
Init ==
    /\ pc = "idle"
    /\ fs \in [Files -> {BadArtifact}]
    /\ arg_config = NoConfig
    /\ config = NoConfig
    /\ model_filename = ""
    /\ buf = NoBuf
    /\ encoder_sess = 0
    /\ sessions = {}
    /\ sess_built = 0
    /\ model_type = ""
    /\ classified = FALSE
    /\ files_read = <<>>
    /\ recognizer = NoRecognizer
    /\ error = "none"
    /\ prev = NoRun
    /\ streams = <<>>
    /\ decode_calls = 0
    /\ last_n = 0

\* ------------------------------------------------------------ Create

\* The caller invokes Create(config); lines 18-23 set up env, sess_opts and
\* an empty model_filename.
CallCreate(cfg, disk) ==
    /\ pc = "idle"
    /\ pc' = "select"
    /\ fs' = disk
    /\ arg_config' = cfg
    /\ config' = cfg
    /\ model_filename' = ""
    /\ UNCHANGED <<buf, encoder_sess, sessions, sess_built, model_type,
                   classified, files_read, recognizer, error, prev,
                   streams, decode_calls, last_n>>

\* Lines 24-31 with the two sub-records tested in the other order.
SelectModel_paraformerFirst ==
    /\ pc = "select"
    /\ IF config.model_config.paraformer.model # ""
       THEN /\ model_filename' = config.model_config.paraformer.model
            /\ pc' = "read"
            /\ error' = error
       ELSE IF config.model_config.transducer.encoder_filename # ""
       THEN /\ model_filename' = config.model_config.transducer.encoder_filename
            /\ pc' = "read"
            /\ error' = error
       ELSE /\ model_filename' = model_filename
            /\ pc' = "exited"
            /\ error' = "Configuration"
    /\ UNCHANGED <<fs, arg_config, config, buf, encoder_sess, sessions,
                   sess_built, model_type, classified, files_read, recognizer,
                   prev, streams, decode_calls, last_n>>

\* Lines 24-31 without the final else: an unset path goes on to ReadFile.
SelectModel_noElse ==
    /\ pc = "select"
    /\ model_filename' =
            IF config.model_config.transducer.encoder_filename # ""
            THEN config.model_config.transducer.encoder_filename
            ELSE config.model_config.paraformer.model
    /\ pc' = "read"
    /\ UNCHANGED <<fs, arg_config, config, buf, encoder_sess, sessions,
                   sess_built, model_type, classified, files_read, recognizer,
                   error, prev, streams, decode_calls, last_n>>

\* Lines 24-31.
SelectModel ==
    /\ pc = "select"
    /\ IF config.model_config.transducer.encoder_filename # ""
       THEN /\ model_filename' = config.model_config.transducer.encoder_filename
            /\ pc' = "read"
            /\ error' = error
       ELSE IF config.model_config.paraformer.model # ""
       THEN /\ model_filename' = config.model_config.paraformer.model
            /\ pc' = "read"
            /\ error' = error
       ELSE /\ model_filename' = model_filename
            /\ pc' = "exited"
            /\ error' = "Configuration"
    /\ UNCHANGED <<fs, arg_config, config, buf, encoder_sess, sessions,
                   sess_built, model_type, classified, files_read, recognizer,
                   prev, streams, decode_calls, last_n>>

\* ReadFile(model_filename) of line 33: the bytes of the file; a name with no
\* file behind it gives bytes that are no model.
ReadFile(path) == IF path \in DOMAIN fs THEN fs[path] ELSE BadArtifact

\* Line 33.
ReadModelFile ==
    /\ pc = "read"
    /\ buf' = ReadFile(model_filename)
    /\ files_read' = Append(files_read, model_filename)
    /\ pc' = "session"
    /\ UNCHANGED <<fs, arg_config, config, model_filename, encoder_sess,
                   sessions, sess_built, model_type, classified, recognizer,
                   error, prev, streams, decode_calls, last_n>>

\* Lines 35-36 with the failure of the constructor swallowed.
BuildSession_noThrow ==
    /\ pc = "session"
    /\ encoder_sess' = FreshSession
    /\ sessions' = sessions \cup {FreshSession}
    /\ sess_built' = sess_built + 1
    /\ pc' = "meta"
    /\ UNCHANGED <<fs, arg_config, config, model_filename, buf, model_type,
                   classified, files_read, recognizer, error, prev, streams,
                   decode_calls, last_n>>

\* Lines 35-36: Ort::Session's constructor throws on bytes that are no model.
BuildSession ==
    /\ pc = "session"
    /\ IF buf.valid
       THEN /\ encoder_sess' = FreshSession
            /\ sessions' = sessions \cup {FreshSession}
            /\ sess_built' = sess_built + 1
            /\ pc' = "meta"
            /\ error' = error
       ELSE /\ UNCHANGED <<encoder_sess, sessions, sess_built>>
            /\ pc' = "thrown"
            /\ error' = "Artifact"
    /\ UNCHANGED <<fs, arg_config, config, model_filename, buf, model_type,
                   classified, files_read, recognizer, prev, streams,
                   decode_calls, last_n>>

\* Lines 38-43.
ReadMetaData ==
    /\ pc = "meta"
    /\ model_type' = ReadMetaDataStr(buf)
    /\ pc' = "classify"
    /\ UNCHANGED <<fs, arg_config, config, model_filename, buf, encoder_sess,
                   sessions, sess_built, classified, files_read, recognizer,
                   error, prev, streams, decode_calls, last_n>>

\* Forwarding only the path that was selected.
ForwardedConfig_primaryOnly ==
    IF model_filename = config.model_config.transducer.encoder_filename
    THEN MkConfig(model_filename, "")
    ELSE MkConfig("", model_filename)

\* What the return statements of lines 46 and 50 hand to the constructor.
ForwardedConfig == config

\* Lines 45-60 dispatching on the sub-record that supplied the path.
Dispatch_bySource ==
    /\ pc = "classify"
    /\ classified' = TRUE
    /\ IF Classify(model_type) = "Unknown"
       THEN /\ UNCHANGED <<recognizer, sessions>>
            /\ pc' = "exited"
            /\ error' = "Classification"
       ELSE IF config.model_config.transducer.encoder_filename # ""
       THEN /\ recognizer' = OfflineRecognizerTransducerImpl(ForwardedConfig, FreshSession)
            /\ sessions' = sessions \cup {FreshSession}
            /\ pc' = "unwind"
            /\ error' = error
       ELSE /\ recognizer' = OfflineRecognizerParaformerImpl(ForwardedConfig, FreshSession)
            /\ sessions' = sessions \cup {FreshSession}
            /\ pc' = "unwind"
            /\ error' = error
    /\ UNCHANGED <<fs, arg_config, config, model_filename, buf, encoder_sess,
                   sess_built, model_type, files_read, prev, streams,
                   decode_calls, last_n>>

\* Lines 45-60: the operand of return is evaluated (the implementation is
\* constructed) while every local of Create is still alive.
Dispatch ==
    /\ pc = "classify"
    /\ classified' = TRUE
    /\ IF Classify(model_type) = "Transducer"
       THEN /\ recognizer' = OfflineRecognizerTransducerImpl(ForwardedConfig, FreshSession)
            /\ sessions' = sessions \cup {FreshSession}
            /\ pc' = "unwind"
            /\ error' = error
       ELSE IF Classify(model_type) = "Paraformer"
       THEN /\ recognizer' = OfflineRecognizerParaformerImpl(ForwardedConfig, FreshSession)
            /\ sessions' = sessions \cup {FreshSession}
            /\ pc' = "unwind"
            /\ error' = error
       ELSE /\ UNCHANGED <<recognizer, sessions>>
            /\ pc' = "exited"
            /\ error' = "Classification"
    /\ UNCHANGED <<fs, arg_config, config, model_filename, buf, encoder_sess,
                   sess_built, model_type, files_read, prev, streams,
                   decode_calls, last_n>>

\* Line 61 with the introspection session held by a pointer nobody frees.
Unwind_leak ==
    /\ pc = "unwind"
    /\ pc' = "returned"
    /\ UNCHANGED <<fs, arg_config, config, model_filename, buf, encoder_sess,
                   sessions, sess_built, model_type, classified, files_read,
                   recognizer, error, prev, streams, decode_calls, last_n>>

\* Line 61: leaving Create destroys its locals, encoder_sess among them.
Unwind ==
    /\ pc = "unwind"
    /\ sessions' = sessions \ {encoder_sess}
    /\ pc' = "returned"
    /\ UNCHANGED <<fs, arg_config, config, model_filename, buf, encoder_sess,
                   sess_built, model_type, classified, files_read, recognizer,
                   error, prev, streams, decode_calls, last_n>>

\* ------------------------------------------- the returned recognizer

NewStream == [result |-> 0]

\* offline-recognizer-impl.h line 22: a fresh stream handed to the caller,
\* who appends it to the buffer it will later pass to DecodeStreams.
CreateStream ==
    /\ pc = "returned"
    /\ Len(streams) < MaxStreams
    /\ streams' = Append(streams, NewStream)
    /\ UNCHANGED <<pc, fs, arg_config, config, recognizer, error, prev,
                   sessions, decode_calls, last_n>>
    /\ UNCHANGED createLocals

\* A batch call that ignores its count and decodes the whole buffer.
DecodedBuffer_wholeBuffer(ss, n, call) ==
    [i \in 1..Len(ss) |-> [ss[i] EXCEPT !.result = call]]

\* The buffer after the batch call: the first n streams carry the result of
\* this call, the rest are as they were.
DecodedBuffer(ss, n, call) ==
    [i \in 1..Len(ss) |-> IF i <= n THEN [ss[i] EXCEPT !.result = call] ELSE ss[i]]

\* offline-recognizer-impl.h line 24: DecodeStreams(ss, n).
DecodeStreams(n) ==
    /\ pc = "returned"
    /\ decode_calls < MaxDecodes
    /\ n \in 1..Len(streams)
    /\ decode_calls' = decode_calls + 1
    /\ last_n' = n
    /\ streams' = DecodedBuffer(streams, n, decode_calls + 1)
    /\ UNCHANGED <<pc, fs, arg_config, config, recognizer, error, prev,
                   sessions>>
    /\ UNCHANGED createLocals

\* Which sub-record supplied the path of a finished run.
RunSource ==
    IF model_filename = "" THEN "none"
    ELSE IF model_filename = arg_config.model_config.transducer.encoder_filename
    THEN "transducer" ELSE "paraformer"

RunOutcome == IF error = "none" THEN recognizer.kind ELSE error

\* The run is over (the recognizer was returned and later destroyed by its
\* owner, or the process ended); the next call of Create starts afresh.
Finish ==
    /\ pc \in {"returned", "exited", "thrown"}
    /\ pc' = "idle"
    /\ prev' = IF classified
               THEN [model_type |-> model_type, outcome |-> RunOutcome,
                     source |-> RunSource]
               ELSE prev
    /\ arg_config' = NoConfig
    /\ config' = NoConfig
    /\ model_filename' = ""
    /\ buf' = NoBuf
    /\ encoder_sess' = 0
    /\ sessions' = {}
    /\ sess_built' = 0
    /\ model_type' = ""
    /\ classified' = FALSE
    /\ files_read' = <<>>
    /\ recognizer' = NoRecognizer
    /\ error' = "none"
    /\ streams' = <<>>
    /\ decode_calls' = 0
    /\ last_n' = 0
    /\ UNCHANGED fs

Next ==
    \/ \E cfg \in Configs, disk \in [Files -> Artifacts] : CallCreate(cfg, disk)
    \/ SelectModel
    \/ ReadModelFile
    \/ BuildSession
    \/ ReadMetaData
    \/ Dispatch
    \/ Unwind
    \/ CreateStream
    \/ \E n \in 1..MaxStreams : DecodeStreams(n)
    \/ Finish

Spec == Init /\ [][Next]_vars

\* ================================================================ claims

EncPath == arg_config.model_config.transducer.encoder_filename
ParPath == arg_config.model_config.paraformer.model

Finished == pc \in {"returned", "exited", "thrown"}

\* The family of the recognizer the run produced, "Unknown" if it produced none.
ObservedFamily == IF recognizer.kind = "none" THEN "Unknown" ELSE recognizer.kind

\* C1: the model_type string is classified by exact, case-sensitive match:
\* "conformer" and "zipformer" give the Transducer family, "paraformer" the
\* Paraformer family, and every other string (the empty one, one that differs
\* from a known value in case or surrounding blanks) gives Unknown.
C1_ExactMatchClassification ==
    classified =>
        /\ model_type \in {"conformer", "zipformer"} => ObservedFamily = "Transducer"
        /\ model_type = "paraformer" => ObservedFamily = "Paraformer"
        /\ model_type \notin {"conformer", "zipformer", "paraformer"}
              => ObservedFamily = "Unknown"

C1_Witness ==
    /\ classified
    /\ model_type = "Conformer"
    /\ ObservedFamily = "Unknown"

\* C2 as stated: with exactly one sub-record populated, the recognizer that
\* Create returns is of the family of that sub-record.
C2_FamilyOfPopulatedSubRecord ==
    pc = "returned" =>
        /\ (EncPath # "" /\ ParPath = "") => recognizer.kind = "Transducer"
        /\ (EncPath = "" /\ ParPath # "") => recognizer.kind = "Paraformer"

LoadsAs(path, types) ==
    /\ path \in DOMAIN fs
    /\ fs[path].valid
    /\ fs[path].has_key
    /\ fs[path].model_type \in types

\* C2 amended: with exactly one sub-record populated and the artifact at that
\* path loadable and tagged with a model_type of the same family, Create
\* returns the recognizer of that family.
C2_FamilyOfPopulatedSubRecordWhenTagged ==
    Finished =>
        /\ (EncPath # "" /\ ParPath = "" /\ LoadsAs(EncPath, {"conformer", "zipformer"}))
              => (pc = "returned" /\ recognizer.kind = "Transducer")
        /\ (EncPath = "" /\ ParPath # "" /\ LoadsAs(ParPath, {"paraformer"}))
              => (pc = "returned" /\ recognizer.kind = "Paraformer")

C2_Witness ==
    /\ pc = "returned"
    /\ EncPath = ""
    /\ ParPath = "model.bin"
    /\ fs["model.bin"].model_type = "paraformer"
    /\ recognizer.kind = "Paraformer"

\* C3: with both sub-records populated the transducer encoder file is the
\* primary model file: it is the only file Create reads, the model_type that
\* is classified is the one of that file, and the paraformer path is not read.
C3_TransducerPathHasPriority ==
    (EncPath # "" /\ ParPath # "") =>
        /\ pc \notin {"idle", "select"} => model_filename = EncPath
        /\ \A i \in 1..Len(files_read) : files_read[i] = EncPath
        /\ ParPath # EncPath => \A i \in 1..Len(files_read) : files_read[i] # ParPath
        /\ pc \in {"session", "meta", "classify", "unwind"} \cup {"returned", "exited", "thrown"}
              => files_read = <<EncPath>>
        /\ pc \in {"classify", "unwind", "returned"}
              => model_type = ReadMetaDataStr(fs[EncPath])

C3_Witness ==
    /\ EncPath = "enc.bin"
    /\ ParPath = "model.bin"
    /\ fs["enc.bin"].model_type # fs["model.bin"].model_type
    /\ pc = "returned"
    /\ files_read = <<"enc.bin">>

\* C4: with neither sub-record populated Create fails with the Configuration
\* error and loads nothing: no file is read, no session and no recognizer is
\* constructed.
C4_NoModelProvided ==
    (pc # "idle" /\ EncPath = "" /\ ParPath = "") =>
        /\ pc \in {"select", "exited"}
        /\ pc = "exited" => error = "Configuration"
        /\ files_read = <<>>
        /\ sess_built = 0
        /\ sessions = {}
        /\ recognizer = NoRecognizer

C4_Witness ==
    /\ EncPath = ""
    /\ ParPath = ""
    /\ pc = "exited"
    /\ error = "Configuration"

\* C5: a loaded artifact whose model_type is not a known value, or is absent,
\* ends Create in the Classification error with no recognizer of any family.
C5_UnknownTypeIsFatal ==
    (buf.valid /\ (~buf.has_key \/ buf.model_type \notin {"conformer", "zipformer", "paraformer"}))
        => /\ recognizer = NoRecognizer
           /\ pc \notin {"unwind", "returned"}
           /\ classified => (pc = "exited" /\ error = "Classification")

C5_Witness ==
    /\ classified
    /\ buf.valid
    /\ buf.has_key
    /\ buf.model_type = "whisper"
    /\ pc = "exited"
    /\ error = "Classification"

\* C6: when the selected file is no loadable model, Create ends in the
\* Artifact error before the model_type is read or compared, and constructs
\* no recognizer.
C6_ArtifactErrorBeforeClassification ==
    (files_read # <<>> /\ ~buf.valid) =>
        /\ pc \in {"session", "thrown"}
        /\ pc = "thrown" => error = "Artifact"
        /\ ~classified
        /\ sess_built = 0
        /\ recognizer = NoRecognizer

C6_Witness ==
    /\ EncPath = ""
    /\ ParPath = "model.bin"
    /\ ~fs["model.bin"].valid
    /\ pc = "thrown"
    /\ error = "Artifact"

\* C7: DecodeStreams(ss, n) gives each of the first n streams of the buffer a
\* result it did not hold before the call and leaves every later stream of
\* the buffer unchanged.
C7_DecodesExactlyFirstN ==
    [][decode_calls' = decode_calls + 1 =>
          /\ Len(streams') = Len(streams)
          /\ last_n' \in 1..Len(streams)
          /\ \A i \in 1..Len(streams) :
                IF i <= last_n'
                THEN streams'[i].result # 0 /\ streams'[i].result # streams[i].result
                ELSE streams'[i] = streams[i]]_vars

C7_Witness ==
    /\ decode_calls = 2
    /\ last_n = 2
    /\ Len(streams) = 3
    /\ streams[1].result = 2
    /\ streams[2].result = 2
    /\ streams[3].result = 1

\* C8 as stated: the introspection session is built at most once, is gone
\* before the concrete recognizer exists, and is not the recognizer's session.
C8_SessionGoneBeforeRecognizer ==
    /\ sess_built <= 1
    /\ recognizer # NoRecognizer => encoder_sess \notin sessions
    /\ recognizer # NoRecognizer => recognizer.sess # encoder_sess

\* C8 amended: the introspection session is built at most once, is still
\* alive while the concrete recognizer is constructed, is torn down when
\* Create returns, and is never the session the returned recognizer holds.
C8_SessionGoneOnReturn ==
    /\ sess_built <= 1
    /\ pc = "unwind" => (recognizer # NoRecognizer /\ encoder_sess \in sessions)
    /\ pc = "returned" => (encoder_sess \notin sessions /\ recognizer.sess \in sessions)
    /\ recognizer # NoRecognizer => recognizer.sess # encoder_sess

C8_Witness ==
    /\ pc = "returned"
    /\ sess_built = 1
    /\ encoder_sess = 1
    /\ recognizer.sess = 2
    /\ sessions = {2}

\* C9: the implementation that is constructed receives the whole
\* configuration the caller passed, and Create leaves the caller's
\* configuration as it was.
C9_WholeConfigForwarded ==
    /\ recognizer # NoRecognizer => recognizer.config = arg_config
    /\ config = arg_config

C9_Witness ==
    /\ pc = "returned"
    /\ EncPath = "enc.bin"
    /\ ParPath = "model.bin"
    /\ recognizer.config = MkConfig("enc.bin", "model.bin")

\* C10: the outcome of Create depends on the model_type of the selected
\* artifact alone: two runs that classified the same model_type end the same
\* way whichever sub-record supplied the path; a paraformer path tagged
\* "zipformer" or "conformer" gives the Transducer recognizer and an encoder
\* path tagged "paraformer" gives the Paraformer recognizer.
C10_FamilyDependsOnModelTypeOnly ==
    classified =>
        /\ prev.model_type = model_type => prev.outcome = RunOutcome
        /\ (RunSource = "paraformer" /\ model_type \in {"conformer", "zipformer"})
              => recognizer.kind = "Transducer"
        /\ (RunSource = "transducer" /\ model_type = "paraformer")
              => recognizer.kind = "Paraformer"

C10_Witness ==
    /\ classified
    /\ prev.source = "paraformer"
    /\ RunSource = "transducer"
    /\ prev.model_type = "paraformer"
    /\ model_type = "paraformer"
    /\ prev.outcome = "Paraformer"
    /\ recognizer.kind = "Paraformer"

====
